---- MODULE Spec2Model ----
(***************************************************************************)
(* Tracking & notification engine of the radiosonde notifier               *)
(* (src/notifier_EN.py; src/notifier_RO.py is the same engine without the  *)
(* timer sweep of the main loop).                                          *)
(*                                                                         *)
(* Units: altitudes in metres, times in seconds, vertical velocities in    *)
(* tenths of a metre per second (so -1.0 m/s is -10).  A source timestamp  *)
(* (an ISO-8601 string in the code) is represented by the instant it       *)
(* denotes, in seconds.  A position (lat, lon) is represented by a named   *)
(* point whose great-circle distance from the region centre is tabulated.  *)
(***************************************************************************)
EXTENDS Integers, Sequences, FiniteSets, TLC

VARIABLES
    now,                    \* the wall clock, time.time()
    detected_sonde,         \* EntityStore: serial -> TrackingState (a dict)
    last_notification_time, \* throttle state: serial -> time (a dict)
    subscribed_users,       \* keys of the subscriber dict, in insertion order
    sonde_queue,            \* asyncio.Queue between the feed and the consumer
    delivered,              \* number of reports the feed has delivered so far
    pc,                     \* consumer: "get" (awaiting queue.get), "send", or
                            \* "cancelled" / "stopped" (the loop has ended)
    frame,                  \* locals of process_sonde_data while suspended
    last,                   \* what the consumer decided for the report taken last
    notified_at,            \* per tracked entity: time of its last dispatch
    passed_filter,          \* serials with a report that passed the geofence and
                            \* altitude filter since their last eviction
    sondes_dir_writable,    \* whether an append to a file of sondes_dir succeeds
    sondehub_stream,        \* 0 for None, or n: the attribute refers to the n-th
                            \* sondehub.Stream that run() has created
    sondehub_connected,     \* the connection flag
    sondehub_reconnect_attempts,    \* the attempt counter
    main                    \* run(): where its main loop is, the delay of the
                            \* backoff it sleeps in, the counter value that "+= 1"
                            \* has loaded, whether reconnect gave up, the
                            \* command that handle_command handled last

\* the connection manager's state
conn_vars == << sondehub_stream, sondehub_connected,
                sondehub_reconnect_attempts, main >>

\* the tracking and notification engine's state
engine_vars == << now, detected_sonde, last_notification_time, subscribed_users,
                  sonde_queue, delivered, pc, frame, last, notified_at,
                  passed_filter, sondes_dir_writable >>

vars == << engine_vars, conn_vars >>

----------------------------------------------------------------------------
\* Bounds of the model

MaxReports == 3     \* reports delivered by the feed in one behaviour
MaxQueue == 2       \* reports waiting in the queue (the code's queue is unbounded)
MaxStreams == 3     \* Stream objects that run() creates
MaxUpdates == 3     \* Telegram updates that get_telegram_updates receives

\* The readings time.time() passes through: a first reading, one update
\* interval later, and 24 h after that.  The code reads the clock as a plain
\* number and assumes no lower bound for it, so the first reading is 0.
ClockValues == {0, 300, 86700}

----------------------------------------------------------------------------
\* Configuration (config.json, read once at startup)

RadiusKm == 50
MinAltitudeM == 0
MaxAltitudeM == 40000
UpdateIntervalMinutes == 5

\* Connection manager (RadiosondeNotifier.__init__)
max_reconnect_attempts == 10
reconnect_delay == 30

\* maxsize of the hand-off queue, asyncio.Queue(): 0, "the queue size is
\* infinite"
queue_maxsize == 0

----------------------------------------------------------------------------
\* Reports

Serials == {"A", "B"}
Users == <<"u1", "u2">>

Positions == {"edge", "outside"}

Altitudes == {50, 900, 1000}

\* vertical velocities: none, and a descent faster than 1.0 m/s
Velocities == {0, -20}

Report(serial, pos, alt, vel_v, datetime) ==
    [serial |-> serial, pos |-> pos, alt |-> alt,
     vel_v |-> vel_v, datetime |-> datetime]

\* The reports the feed can deliver: for A inside the region an early report
\* and every altitude and velocity 80 s later; one report of A outside the
\* region; one report of a second entity.
Reports ==
    { Report("A", "edge", alt, v, 80) : alt \in Altitudes, v \in Velocities }
    \cup { Report("A", "edge", 1000, 0, 0),
           Report("A", "outside", 1000, 0, 80),
           Report("B", "edge", 1000, 0, 0) }

\* The n-th message the feed delivers: the report, with its place in the
\* feed's order of delivery.
Message(report, n) ==
    [serial |-> report.serial, pos |-> report.pos, alt |-> report.alt,
     vel_v |-> report.vel_v, datetime |-> report.datetime, seq |-> n,
     missing |-> {}]

\* The keys process_sonde_data requires: "serial", "lat", "lon", "alt" and
\* "datetime".  A message in which the keys of the set missing are absent
\* (or None, or an empty serial); the record holds a placeholder for them.
RequiredKeys == {"serial", "lat", "lon", "alt", "datetime"}

IncompleteMessage(report, missing, n) ==
    [Message(report, n) EXCEPT !.missing = missing]

\* Telegram chats: the admin chat of the configuration, the two subscribers
\* loaded at start and a chat that has not subscribed
admin_chat_id == "admin"
Chats == {"admin", "u1", "u2", "u3"}

\* first words of message texts: the commands of handle_command, a command
\* it does not know and a text that is no command
Commands == {"/start", "/stop", "/status", "/list", "/history", "/help",
             "/subscribers", "/other", "hello"}

\* No command has been handled yet (last_update_id = 0).
NoCommand == [update_id |-> 0, chat |-> "none", command |-> "none",
              executed |-> "none"]

\* No report is being processed.
NoFrame == [busy |-> FALSE]

\* No report has been taken yet.
NoLast ==
    [serial |-> "none",
     seq |-> 0,
     sonde_data |-> Message(Report("none", "outside", 0, 0, 0), 0),
     time |-> 0,
     qualifying |-> FALSE,
     was_tracked |-> FALSE,
     had_entry |-> FALSE,
     event_type |-> "none",
     verdict |-> FALSE,
     is_descending |-> FALSE,
     rate_evaluated |-> FALSE,
     saved |-> FALSE,
     appended |-> 0,
     dispatched |-> FALSE,
     raised |-> FALSE,
     swept |-> FALSE,
     done |-> FALSE]

EmptyDict == [k \in {} |-> 0]

\* d[k] = v of a Python dict
Put(d, k, v) == [x \in (DOMAIN d) \cup {k} |-> IF x = k THEN v ELSE d[x]]

\* the dict without the keys in S (dict.pop(k, None) for each k in S)
Without(d, S) == [x \in (DOMAIN d) \ S |-> d[x]]

\* a sleep that blocks the event loop's thread, and with it every task
asyncio_sleep_BlocksLoop(m) ==
    IF m.pc \in {"backoff", "sleep"} THEN {"run", "sonde_processor"} ELSE {}

\* "await asyncio.sleep(...)" in run() and in reconnect_sondehub, which run()
\* awaits: the tasks that the sleep keeps from running.  It suspends the
\* task that awaits it; the event loop runs the other tasks meanwhile.
asyncio_sleep(m) ==
    IF m.pc \in {"backoff", "sleep"} THEN {"run"} ELSE {}

\* asyncio.Queue.full
queue_full(q) == queue_maxsize > 0 /\ Len(q) >= queue_maxsize

\* a put that places the item at the head of the queue
queue_put_AtHead(q, item) == << item >> \o q

\* asyncio.Queue.put on a queue without maxsize: the item goes to the tail
queue_put(q, item) == Append(q, item)

\* a sequence without its i-th element
DropAt(seq, i) == [j \in 1..(Len(seq) - 1) |-> IF j < i THEN seq[j] ELSE seq[j + 1]]

----------------------------------------------------------------------------
\* Pure helpers

\* haversine_distance, tabulated: "edge" lies exactly on the radius
haversine_distance(pos) ==
    IF pos = "edge" THEN RadiusKm ELSE RadiusKm + 1

is_within_radius(pos) == haversine_distance(pos) <= RadiusKm

\* the altitude range without its two bounds
is_within_altitude_Exclusive(alt) == MinAltitudeM < alt /\ alt < MaxAltitudeM

\* is_within_altitude, for an altitude that is present
is_within_altitude(alt) == MinAltitudeM <= alt /\ alt <= MaxAltitudeM

\* the filter without the geofence
Qualifying_AltitudeOnly(d) == is_within_altitude(d.alt)

\* a drop of the messages without a serial only
Malformed_SerialOnly(d) == "serial" \in d.missing

\* process_sonde_data, "if not serial: return" and "if lat is None or lon is
\* None or alt is None or sonde_time is None: return"
Malformed(d) == d.missing \cap RequiredKeys # {}

\* a history that records only the events that are notified
records_history_WhenNotified(event_type, send) ==
    event_type \in {"initial", "update", "landing"} /\ send

\* process_sonde_data, "if event_type in [initial, update, landing]:
\* self.save_sonde_data(...)", before the throttle is asked
records_history(event_type, send) ==
    event_type \in {"initial", "update", "landing"}

\* save_sonde_data: the number of records one call appends to the history
\* (an exception of the write is caught and logged)
save_sonde_data(writable) == IF writable THEN 1 ELSE 0

\* process_sonde_data, "if within_radius and within_altitude"
Qualifying(d) == is_within_radius(d.pos) /\ is_within_altitude(d.alt)

\* descent_rate > 1.0 with descent_rate = altitude_diff / time_diff, time_diff > 0
DescentRateAboveOne(altitude_diff, time_diff) == altitude_diff > time_diff

\* the rate signal with only the ten-minute bound on the time difference
is_descending_TenMinutes(store, serial, current_altitude, sonde_timestamp) ==
    IF serial \notin DOMAIN store
    THEN FALSE
    ELSE LET time_diff == sonde_timestamp - store[serial].last_sonde_time
             altitude_diff == store[serial].last_altitude - current_altitude
         IN  IF time_diff > 600 \/ time_diff <= 0
             THEN FALSE
             ELSE altitude_diff >= 50 /\ altitude_diff > time_diff

\* RadiosondeNotifier.is_descending: the altitude-rate signal
is_descending(store, serial, current_altitude, sonde_timestamp) ==
    IF serial \notin DOMAIN store
    THEN FALSE
    ELSE LET previous_altitude == store[serial].last_altitude
             previous_time == store[serial].last_sonde_time
             time_diff == sonde_timestamp - previous_time
             altitude_diff == previous_altitude - current_altitude
         IN  IF time_diff > 600 \/ time_diff <= 0
             THEN FALSE
             ELSE /\ altitude_diff >= 50
                  /\ DescentRateAboveOne(altitude_diff, time_diff)
                  /\ time_diff < 300

\* the two signals with the rate signal evaluated whenever the entity is tracked
DescentSignals_RateAlways(store, d) ==
    IF d.serial \in DOMAIN store
    THEN [verdict |-> d.vel_v < -10
                      \/ is_descending(store, d.serial, d.alt, d.datetime),
          rate_evaluated |-> TRUE]
    ELSE [verdict |-> d.vel_v < -10, rate_evaluated |-> FALSE]

\* process_sonde_data, "Method 1" / "Method 2": the verdict and whether the
\* rate signal was evaluated for it
DescentSignals(store, d) ==
    IF d.vel_v < -10
    THEN [verdict |-> TRUE, rate_evaluated |-> FALSE]
    ELSE IF d.serial \in DOMAIN store
         THEN [verdict |-> is_descending(store, d.serial, d.alt, d.datetime),
               rate_evaluated |-> TRUE]
         ELSE [verdict |-> FALSE, rate_evaluated |-> FALSE]

\* the event type with the landing test made before the first-detection test
EventType_LandingFirst(tracked, alt, descending) ==
    IF alt < 100 THEN "landing"
    ELSE IF ~tracked THEN "initial"
    ELSE IF descending THEN "update"
    ELSE "none"

\* process_sonde_data, "Determine event type"
EventType(tracked, alt, descending) ==
    IF ~tracked THEN "initial"
    ELSE IF alt < 100 THEN "landing"
    ELSE IF descending THEN "update"
    ELSE "none"

\* the TrackingState created for a first detection.  The dict is created
\* without the key "altitude_history"; the field holds what
\* .get("altitude_history", []) reads from it.
NewTrackingState(d, descending, t) ==
    [first_detected |-> t,
     last_position |-> d.pos,
     last_altitude |-> d.alt,
     last_update_time |-> t,
     last_sonde_time |-> d.datetime,
     is_descending |-> descending,
     vertical_velocity |-> d.vel_v,
     altitude_history |-> << >>]

\* analyze_sonde_trend up to "self.detected_sonde[serial]["altitude_history"]
\* = history": the sample is appended and the oldest one is dropped beyond
\* 10.  No statement of the program calls analyze_sonde_trend, so no action
\* applies this operator.
analyze_sonde_trend(store, serial, d) ==
    IF serial \notin DOMAIN store
    THEN store
    ELSE LET history == Append(store[serial].altitude_history,
                               [altitude |-> d.alt, timestamp |-> d.datetime])
         IN  [store EXCEPT ![serial].altitude_history =
                IF Len(history) > 10 THEN Tail(history) ELSE history]

\* the update leaving the descending flag as it was stored
UpdateTracking_KeepsFlag(store, d, descending, t) ==
    IF d.serial \in DOMAIN store
    THEN [store EXCEPT ![d.serial] =
            [@ EXCEPT !.last_position = d.pos,
                      !.last_altitude = d.alt,
                      !.last_update_time = t,
                      !.last_sonde_time = d.datetime,
                      !.vertical_velocity = d.vel_v]]
    ELSE store

\* the update restarting the session's first_detected
UpdateTracking_Restarts(store, d, descending, t) ==
    IF d.serial \in DOMAIN store
    THEN [store EXCEPT ![d.serial] =
            NewTrackingState(d, descending, t)]
    ELSE store

\* the update ending the session of an entity reported below 100 m
UpdateTracking_DropsLanded(store, d, descending, t) ==
    IF d.serial \in DOMAIN store /\ d.alt < 100
    THEN Without(store, {d.serial})
    ELSE IF d.serial \in DOMAIN store
    THEN [store EXCEPT ![d.serial] =
            [@ EXCEPT !.last_position = d.pos,
                      !.last_altitude = d.alt,
                      !.last_update_time = t,
                      !.last_sonde_time = d.datetime,
                      !.is_descending = descending,
                      !.vertical_velocity = d.vel_v]]
    ELSE store

\* detected_sonde[serial].update({...}), guarded by "if serial in detected_sonde"
UpdateTracking(store, d, descending, t) ==
    IF d.serial \in DOMAIN store
    THEN [store EXCEPT ![d.serial] =
            [@ EXCEPT !.last_position = d.pos,
                      !.last_altitude = d.alt,
                      !.last_update_time = t,
                      !.last_sonde_time = d.datetime,
                      !.is_descending = descending,
                      !.vertical_velocity = d.vel_v]]
    ELSE store

\* the throttle with Landing events throttled like Update events
should_send_notification_LandingThrottled(throttle, serial, event_type, current_time) ==
    IF event_type = "initial" THEN TRUE
    ELSE IF event_type \in {"update", "landing"}
         THEN LET last_time == IF serial \in DOMAIN throttle
                               THEN throttle[serial] ELSE 0
              IN  current_time - last_time >= UpdateIntervalMinutes * 60
    ELSE FALSE

\* the throttle with an absent entry read as "notified just now"
should_send_notification_AbsentIsNow(throttle, serial, event_type, current_time) ==
    IF event_type = "initial" THEN TRUE
    ELSE IF event_type = "update"
         THEN LET last_time == IF serial \in DOMAIN throttle
                               THEN throttle[serial] ELSE current_time
              IN  current_time - last_time >= UpdateIntervalMinutes * 60
    ELSE IF event_type = "landing" THEN TRUE
    ELSE FALSE

\* RadiosondeNotifier.should_send_notification
should_send_notification(throttle, serial, event_type, current_time) ==
    IF event_type = "initial" THEN TRUE
    ELSE IF event_type = "update"
         THEN LET last_time == IF serial \in DOMAIN throttle
                               THEN throttle[serial] ELSE 0
                  update_interval == UpdateIntervalMinutes * 60
              IN  current_time - last_time >= update_interval
    ELSE IF event_type = "landing" THEN TRUE
    ELSE FALSE

\* the sweep deciding on the age of the last update
old_serials_ByLastUpdate(store, current_time) ==
    { s \in DOMAIN store : current_time - store[s].last_update_time > 86400 }

\* the sweep removing an entity from an age of exactly 24 h on
old_serials_FromOneDay(store, current_time) ==
    { s \in DOMAIN store : current_time - store[s].first_detected >= 86400 }

\* cleanup_old_entries: the serials it removes
old_serials(store, current_time) ==
    { s \in DOMAIN store : current_time - store[s].first_detected > 86400 }

\* cleanup_old_entries: its effect on the two dicts
CleanStore(store, current_time) == Without(store, old_serials(store, current_time))
CleanThrottle(store, throttle, current_time) ==
    Without(throttle, old_serials(store, current_time))

\* the dispatch times of the entities that are still tracked
InSession(na, store) == [s \in (DOMAIN na) \cap (DOMAIN store) |-> na[s]]

----------------------------------------------------------------------------
\* run() has made its first connection to the feed and is in its main loop;
\* the history directory is writable.
Running ==
    /\ sondehub_stream = 1
    /\ sondehub_connected = TRUE
    /\ sondehub_reconnect_attempts = 0
    /\ main = [pc |-> "check", delay |-> 0, loaded |-> 0, gave_up |-> FALSE,
            command |-> NoCommand]
    /\ sondes_dir_writable = TRUE

----------------------------------------------------------------------------
\* Initial state: RadiosondeNotifier.__init__, with two subscribers loaded

Init ==
    /\ now = 0
    /\ detected_sonde = EmptyDict
    /\ last_notification_time = EmptyDict
    /\ subscribed_users = Users
    /\ sonde_queue = << >>
    /\ delivered = 0
    /\ pc = "get"
    /\ frame = NoFrame
    /\ last = NoLast
    /\ notified_at = EmptyDict
    /\ passed_filter = {}
    /\ Running

----------------------------------------------------------------------------
\* Environment

\* The wall clock advances to a later reading.
Tick ==
    /\ UNCHANGED << conn_vars, sondes_dir_writable >>
    /\ \E t \in ClockValues : t > now /\ now' = t
    /\ UNCHANGED << detected_sonde, last_notification_time, subscribed_users,
                    sonde_queue, delivered, pc, frame, last, notified_at,
                    passed_filter >>

\* self.loop: the attribute does not exist until run() stores the event loop
\* in it, in the step that leaves main.pc = "start"
loop == IF main.pc = "start" THEN "unset" ELSE "running"

\* an enqueue that keeps the report when the scheduling of the put raised
run_coroutine_threadsafe_Buffers(q, item, l) == queue_put(q, item)

\* on_message's try block: run_coroutine_threadsafe(self.sonde_queue.put(
\* message), self.loop) schedules the put on the event loop; without the
\* attribute the statement raises AttributeError, which the except clause
\* logs, and nothing is put
run_coroutine_threadsafe(q, item, l) ==
    IF l = "running" THEN queue_put(q, item) ELSE q

\* on_message: the feed delivers a report, which is put into the queue.  The
\* callback returns in every case: nothing in it waits, and its except clause
\* catches what the enqueue raises.
on_message ==
    /\ UNCHANGED << conn_vars, sondes_dir_writable >>
    /\ delivered < MaxReports
    /\ Len(sonde_queue) < MaxQueue
    /\ ~queue_full(sonde_queue)
    /\ \E report \in Reports :
          sonde_queue' = run_coroutine_threadsafe(sonde_queue,
                                                  Message(report, delivered + 1),
                                                  loop)
    /\ delivered' = delivered + 1
    /\ UNCHANGED << now, detected_sonde, last_notification_time, subscribed_users,
                    pc, frame, last, notified_at, passed_filter >>

----------------------------------------------------------------------------
\* The consumer: sonde_processor / process_sonde_data

\* process_sonde_data from "Update last notification time" (or, when the
\* throttle said no, from "Update tracking data") to its end, sweep included.
\* recorded: whether line 469 runs.
FinishReport(store, throttle, na, pf, d, descending, recorded, result) ==
    LET throttle1 == IF recorded THEN Put(throttle, d.serial, now) ELSE throttle
        store1 == UpdateTracking(store, d, descending, now)
    IN  /\ detected_sonde' = CleanStore(store1, now)
        /\ last_notification_time' = CleanThrottle(store1, throttle1, now)
        /\ notified_at' = InSession(na, CleanStore(store1, now))
        /\ passed_filter' = pf \ old_serials(store1, now)
        /\ pc' = "get"
        /\ frame' = NoFrame
        /\ last' = [result EXCEPT !.done = TRUE, !.swept = TRUE]

\* sonde_processor takes the next report and process_sonde_data runs up to
\* its first suspension (the first _send_to_user of the broadcast) or its end.
ProcessSondeData ==
    /\ UNCHANGED << conn_vars, sondes_dir_writable >>
    /\ "sonde_processor" \notin asyncio_sleep(main)
    /\ pc = "get"
    /\ sonde_queue # << >>
    /\ sonde_queue' = Tail(sonde_queue)
    /\ UNCHANGED << now, subscribed_users, delivered >>
    /\ LET sonde_data == Head(sonde_queue)
           serial == sonde_data.serial
           malformed == Malformed(sonde_data)
           qualifying == ~malformed /\ Qualifying(sonde_data)
           tracked == serial \in DOMAIN detected_sonde
           signals == DescentSignals(detected_sonde, sonde_data)
           event_type == EventType(tracked, sonde_data.alt, signals.verdict)
           descending == IF event_type = "landing" THEN TRUE ELSE signals.verdict
           store1 == IF tracked
                     THEN detected_sonde
                     ELSE Put(detected_sonde, serial,
                              NewTrackingState(sonde_data, signals.verdict, now))
           send == should_send_notification(last_notification_time, serial,
                                            event_type, now)
           result == [serial |-> serial,
                      seq |-> sonde_data.seq,
                      sonde_data |-> sonde_data,
                      time |-> now,
                      qualifying |-> qualifying,
                      was_tracked |-> tracked,
                      had_entry |-> serial \in DOMAIN last_notification_time,
                      event_type |-> IF qualifying THEN event_type ELSE "none",
                      verdict |-> signals.verdict,
                      is_descending |-> descending,
                      rate_evaluated |-> qualifying /\ signals.rate_evaluated,
                      saved |-> qualifying /\ records_history(event_type, send),
                      appended |-> IF qualifying /\ records_history(event_type, send)
                                   THEN save_sonde_data(sondes_dir_writable)
                                   ELSE 0,
                      dispatched |-> qualifying /\ send,
                      raised |-> FALSE,
                      swept |-> FALSE,
                      done |-> FALSE]
       IN  IF malformed
           THEN \* a required key is missing: return, before the sweep
                /\ UNCHANGED << detected_sonde, last_notification_time,
                                notified_at, passed_filter >>
                /\ pc' = "get"
                /\ frame' = NoFrame
                /\ last' = [result EXCEPT !.done = TRUE]
           ELSE IF ~qualifying
           THEN \* outside the region: only the sweep runs
                /\ detected_sonde' = CleanStore(detected_sonde, now)
                /\ last_notification_time' =
                       CleanThrottle(detected_sonde, last_notification_time, now)
                /\ notified_at' = InSession(notified_at, CleanStore(detected_sonde, now))
                /\ passed_filter' = passed_filter \ old_serials(detected_sonde, now)
                /\ pc' = "get"
                /\ frame' = NoFrame
                /\ last' = [result EXCEPT !.done = TRUE, !.swept = TRUE]
           ELSE IF event_type = "none"
           THEN \* tracked, not descending: refresh and return (no sweep)
                /\ detected_sonde' = UpdateTracking(detected_sonde, sonde_data,
                                                    descending, now)
                /\ UNCHANGED << last_notification_time, notified_at >>
                /\ passed_filter' = passed_filter \cup {serial}
                /\ pc' = "get"
                /\ frame' = NoFrame
                /\ last' = [result EXCEPT !.done = TRUE]
           ELSE IF send /\ subscribed_users # << >>
           THEN \* suspended in the first _send_to_user of the broadcast
                /\ detected_sonde' = store1
                /\ UNCHANGED last_notification_time
                /\ notified_at' = Put(notified_at, serial, now)
                /\ passed_filter' = passed_filter \cup {serial}
                /\ pc' = "send"
                /\ frame' = [busy |-> TRUE,
                             sonde_data |-> sonde_data,
                             is_descending |-> descending,
                             iter_pos |-> 1,
                             iter_used |-> Len(subscribed_users)]
                /\ last' = result
           ELSE \* throttled, or a broadcast to no subscriber: runs to the end
                FinishReport(store1, last_notification_time,
                             IF send THEN Put(notified_at, serial, now)
                                     ELSE notified_at,
                             passed_filter \cup {serial},
                             sonde_data, descending, send, result)

SendOutcomes == {"ok", "http_error", "timeout", "blocked"}

\* a consumer loop that ends when the processing of a report raised
AfterError_Stops == "stopped"

\* sonde_processor after an error in the processing of a report: the error
\* is logged and the loop goes on to its next sonde_queue.get()
AfterError == "get"

\* _send_to_user to the current subscriber completes; send_telegram_message's
\* loop advances its dict iterator; after the last subscriber
\* process_sonde_data runs to its end.
SendToUserDone ==
    /\ UNCHANGED << conn_vars, sondes_dir_writable >>
    /\ "sonde_processor" \notin asyncio_sleep(main)
    /\ pc = "send"
    /\ UNCHANGED << now, sonde_queue, delivered >>
    /\ \E outcome \in SendOutcomes :
         LET users1 == IF outcome = "blocked"
                       THEN DropAt(subscribed_users, frame.iter_pos)
                       ELSE subscribed_users
         IN  /\ subscribed_users' = users1
             /\ IF Len(users1) # frame.iter_used
                THEN \* RuntimeError: dictionary changed size during iteration,
                     \* caught by process_sonde_data's except clause
                     /\ UNCHANGED << detected_sonde, last_notification_time,
                                     notified_at, passed_filter >>
                     /\ pc' = AfterError
                     /\ frame' = NoFrame
                     /\ last' = [last EXCEPT !.raised = TRUE, !.done = TRUE]
                ELSE IF frame.iter_pos < Len(users1)
                THEN \* suspended in the next _send_to_user
                     /\ UNCHANGED << detected_sonde, last_notification_time,
                                     notified_at, passed_filter, pc, last >>
                     /\ frame' = [frame EXCEPT !.iter_pos = @ + 1]
                ELSE FinishReport(detected_sonde, last_notification_time,
                                  notified_at, passed_filter, frame.sonde_data,
                                  frame.is_descending, TRUE, last)

----------------------------------------------------------------------------
\* The main loop's timer sweep (notifier_EN.py only)

MainLoopCleanup ==
    /\ UNCHANGED << conn_vars, sondes_dir_writable >>
    /\ detected_sonde' = CleanStore(detected_sonde, now)
    /\ last_notification_time' =
           CleanThrottle(detected_sonde, last_notification_time, now)
    /\ notified_at' = InSession(notified_at, CleanStore(detected_sonde, now))
    /\ passed_filter' = passed_filter \ old_serials(detected_sonde, now)
    /\ UNCHANGED << now, subscribed_users, sonde_queue, delivered, pc, frame, last >>

----------------------------------------------------------------------------
Next ==
    \/ Tick
    \/ on_message
    \/ ProcessSondeData
    \/ SendToUserDone
    \/ MainLoopCleanup

Spec == Init /\ [][Next]_vars

----------------------------------------------------------------------------
\* The consumer under fair scheduling, with the shutdown of run().

\* run(), finally: processing_task.cancel(); the CancelledError ends the
\* consumer loop wherever the task is suspended.
Cancel ==
    /\ UNCHANGED << conn_vars, sondes_dir_writable >>
    /\ pc \in {"get", "send"}
    /\ pc' = "cancelled"
    /\ frame' = NoFrame
    /\ UNCHANGED << now, detected_sonde, last_notification_time, subscribed_users,
                    sonde_queue, delivered, last, notified_at, passed_filter >>

\* The clock is held at its first reading and the main loop's sweep is left
\* out: no step of the consumer waits for the clock, and the sweep neither
\* enables nor disables one.
NextLive ==
    \/ on_message
    \/ ProcessSondeData
    \/ SendToUserDone
    \/ Cancel

\* The event loop runs the consumer task whenever it is ready (a report is in
\* the queue), and every _send_to_user ends (the POST has a timeout of 30 s).
SpecLive ==
    /\ Init
    /\ [][NextLive]_vars
    /\ WF_vars(ProcessSondeData)
    /\ WF_vars(SendToUserDone)

----------------------------------------------------------------------------
\* The connection manager: run()'s main loop, reconnect_sondehub,
\* connect_to_sondehub and the feed's connect and disconnect callbacks.
\* main.pc is "start" (before the first connect), "check" (top of the loop),
\* "backoff" (asleep in reconnect_sondehub), "poll" (awaiting
\* get_telegram_updates) or "sleep" (the 5 s at the end of an iteration).

\* a backoff growing by reconnect_delay with each attempt
backoff_delay_Linear(attempts) == reconnect_delay * (attempts + 1)

\* reconnect_sondehub: delay = reconnect_delay * (2**attempts)
backoff_delay(attempts) == reconnect_delay * (2 ^ attempts)

\* a reconnect that gives up one attempt late
reconnect_exhausted_Late(attempts) == attempts > max_reconnect_attempts

\* a reconnect that gives up after its first attempt
reconnect_exhausted_AfterFirst(attempts) == attempts >= 1

\* reconnect_sondehub: "if attempts >= max_reconnect_attempts: return False"
reconnect_exhausted(attempts) == attempts >= max_reconnect_attempts

\* sondehub.Stream(...) returns, or raises
ConnectOutcomes == {"ok", "error"}

\* The Stream objects that can call on_message, on_connect and
\* on_disconnect: every Stream created so far.  Each has its own thread, and
\* connect_to_sondehub only rebinds the attribute: notifier_EN.py has no call
\* that disconnects or stops a Stream.
open_streams == 1..sondehub_stream

\* connect_to_sondehub: a new Stream replaces sondehub_stream and the flag is
\* set, or the exception is caught and the flag is cleared; the attempt
\* counter is not touched
connect_to_sondehub(outcome) ==
    /\ outcome = "ok" => sondehub_stream < MaxStreams
    /\ sondehub_stream' = IF outcome = "ok" THEN sondehub_stream + 1
                                            ELSE sondehub_stream
    /\ sondehub_connected' = (outcome = "ok")
    /\ UNCHANGED sondehub_reconnect_attempts

\* run() up to the main loop: it stores the event loop in self.loop, creates
\* the consumer task and makes the first connect_to_sondehub
RunConnect ==
    /\ main.pc = "start"
    /\ \E outcome \in ConnectOutcomes : connect_to_sondehub(outcome)
    /\ main' = [main EXCEPT !.pc = "check"]
    /\ UNCHANGED engine_vars

\* main loop, "if not self.sondehub_connected: await reconnect_sondehub()",
\* up to reconnect_sondehub's sleep or its return of False, which run() drops
MainLoopCheck ==
    /\ main.pc = "check"
    /\ IF sondehub_connected
       THEN /\ main' = [main EXCEPT !.pc = "poll"]
            /\ UNCHANGED sondehub_reconnect_attempts
       ELSE IF reconnect_exhausted(sondehub_reconnect_attempts)
       THEN /\ main' = [main EXCEPT !.pc = "poll", !.gave_up = TRUE]
            /\ UNCHANGED sondehub_reconnect_attempts
       ELSE /\ main' = [main EXCEPT !.pc = "backoff",
                                    !.delay = backoff_delay(sondehub_reconnect_attempts)]
            /\ sondehub_reconnect_attempts' = sondehub_reconnect_attempts + 1
    /\ UNCHANGED << sondehub_stream, sondehub_connected, engine_vars >>

\* reconnect_sondehub after its sleep: "return await connect_to_sondehub()"
ReconnectAfterDelay ==
    /\ main.pc = "backoff"
    /\ \E outcome \in ConnectOutcomes : connect_to_sondehub(outcome)
    /\ main' = [main EXCEPT !.pc = "poll"]
    /\ UNCHANGED engine_vars

\* main loop: get_telegram_updates returns, cleanup_old_entries runs, the
\* sleep of 5 s starts
MainLoopPoll ==
    /\ main.pc = "poll"
    /\ main' = [main EXCEPT !.pc = "sleep"]
    /\ detected_sonde' = CleanStore(detected_sonde, now)
    /\ last_notification_time' =
           CleanThrottle(detected_sonde, last_notification_time, now)
    /\ notified_at' = InSession(notified_at, CleanStore(detected_sonde, now))
    /\ passed_filter' = passed_filter \ old_serials(detected_sonde, now)
    /\ UNCHANGED << now, subscribed_users, sonde_queue, delivered, pc, frame,
                    last, sondes_dir_writable, sondehub_stream,
                    sondehub_connected, sondehub_reconnect_attempts >>

\* main loop: the sleep of 5 s ends
MainLoopSleep ==
    /\ main.pc = "sleep"
    /\ main' = [main EXCEPT !.pc = "check"]
    /\ UNCHANGED << sondehub_stream, sondehub_connected,
                    sondehub_reconnect_attempts, engine_vars >>

\* on_connect, called by a Stream's thread
on_connect ==
    /\ open_streams # {}
    /\ sondehub_connected' = TRUE
    /\ sondehub_reconnect_attempts' = 0
    /\ UNCHANGED << sondehub_stream, main, engine_vars >>

\* on_disconnect, called by a Stream's thread
on_disconnect ==
    /\ open_streams # {}
    /\ sondehub_connected' = FALSE
    /\ UNCHANGED << sondehub_stream, sondehub_reconnect_attempts, main,
                    engine_vars >>

\* RadiosondeNotifier.__init__ and the start of run()
InitConn ==
    /\ now = 0
    /\ detected_sonde = EmptyDict
    /\ last_notification_time = EmptyDict
    /\ subscribed_users = Users
    /\ sonde_queue = << >>
    /\ delivered = 0
    /\ pc = "get"
    /\ frame = NoFrame
    /\ last = NoLast
    /\ notified_at = EmptyDict
    /\ passed_filter = {}
    /\ sondes_dir_writable = TRUE
    /\ sondehub_stream = 0
    /\ sondehub_connected = FALSE
    /\ sondehub_reconnect_attempts = 0
    /\ main = [pc |-> "start", delay |-> 0, loaded |-> 0, gave_up |-> FALSE,
            command |-> NoCommand]

NextConn ==
    \/ RunConnect
    \/ MainLoopCheck
    \/ ReconnectAfterDelay
    \/ MainLoopPoll
    \/ MainLoopSleep
    \/ on_connect
    \/ on_disconnect

SpecConn == InitConn /\ [][NextConn]_vars

\* The event loop runs the main task whenever it is ready: every sleep ends
\* and every command poll returns (its GET has a timeout of 30 s).  The
\* feed's callbacks are not assumed fair.
SpecConnLive ==
    /\ InitConn
    /\ [][NextConn]_vars
    /\ WF_vars(RunConnect)
    /\ WF_vars(MainLoopCheck)
    /\ WF_vars(ReconnectAfterDelay)
    /\ WF_vars(MainLoopPoll)
    /\ WF_vars(MainLoopSleep)

----------------------------------------------------------------------------
\* The main loop's reconnect statement by statement.  on_connect and
\* on_disconnect run on a Stream's thread and can run between any two
\* statements of reconnect_sondehub, also between the load and the store of
\* "self.sondehub_reconnect_attempts += 1".

\* main loop, "if not self.sondehub_connected:"
MainLoopReadsFlag ==
    /\ main.pc = "check"
    /\ main' = [main EXCEPT !.pc = IF sondehub_connected THEN "poll" ELSE "test"]
    /\ UNCHANGED << sondehub_stream, sondehub_connected,
                    sondehub_reconnect_attempts, engine_vars >>

\* reconnect_sondehub, "if self.sondehub_reconnect_attempts >=
\* self.max_reconnect_attempts: return False"
ReconnectTestsCounter ==
    /\ main.pc = "test"
    /\ main' = IF reconnect_exhausted(sondehub_reconnect_attempts)
               THEN [main EXCEPT !.pc = "poll", !.gave_up = TRUE]
               ELSE [main EXCEPT !.pc = "delay"]
    /\ UNCHANGED << sondehub_stream, sondehub_connected,
                    sondehub_reconnect_attempts, engine_vars >>

\* reconnect_sondehub, "delay = self.reconnect_delay *
\* (2**self.sondehub_reconnect_attempts)"
ReconnectComputesDelay ==
    /\ main.pc = "delay"
    /\ main' = [main EXCEPT !.pc = "load",
                            !.delay = backoff_delay(sondehub_reconnect_attempts)]
    /\ UNCHANGED << sondehub_stream, sondehub_connected,
                    sondehub_reconnect_attempts, engine_vars >>

\* "self.sondehub_reconnect_attempts += 1": the load of the attribute
ReconnectLoadsCounter ==
    /\ main.pc = "load"
    /\ main' = [main EXCEPT !.pc = "store", !.loaded = sondehub_reconnect_attempts]
    /\ UNCHANGED << sondehub_stream, sondehub_connected,
                    sondehub_reconnect_attempts, engine_vars >>

\* "self.sondehub_reconnect_attempts += 1": the store of the sum; the sleep
\* of delay seconds starts
ReconnectStoresCounter ==
    /\ main.pc = "store"
    /\ sondehub_reconnect_attempts' = main.loaded + 1
    /\ main' = [main EXCEPT !.pc = "backoff"]
    /\ UNCHANGED << sondehub_stream, sondehub_connected, engine_vars >>

NextRace ==
    \/ RunConnect
    \/ MainLoopReadsFlag
    \/ ReconnectTestsCounter
    \/ ReconnectComputesDelay
    \/ ReconnectLoadsCounter
    \/ ReconnectStoresCounter
    \/ ReconnectAfterDelay
    \/ MainLoopPoll
    \/ MainLoopSleep
    \/ on_connect
    \/ on_disconnect

SpecRace == InitConn /\ [][NextRace]_vars

----------------------------------------------------------------------------
\* The consumer during a reconnect backoff: the feed has disconnected, the
\* main loop is in the sleep of its first reconnect attempt and two reports
\* wait in the queue.  The connect of an attempt succeeds at most once; no
\* callback of the feed follows.

InitBackoff ==
    /\ now = 0
    /\ detected_sonde = EmptyDict
    /\ last_notification_time = EmptyDict
    /\ notified_at = EmptyDict
    /\ passed_filter = {}
    /\ subscribed_users = Users
    /\ \E first \in Reports, second \in Reports :
          sonde_queue = << Message(first, MaxReports - 1),
                           Message(second, MaxReports) >>
    /\ delivered = MaxReports
    /\ pc = "get"
    /\ frame = NoFrame
    /\ last = NoLast
    /\ sondes_dir_writable = TRUE
    /\ sondehub_stream = 1
    /\ sondehub_connected = FALSE
    /\ sondehub_reconnect_attempts = 1
    /\ main = [pc |-> "backoff", delay |-> backoff_delay(0), loaded |-> 0,
               gave_up |-> FALSE, command |-> NoCommand]

NextBackoff ==
    \/ ProcessSondeData
    \/ SendToUserDone
    \/ MainLoopCheck
    \/ ReconnectAfterDelay
    \/ MainLoopPoll
    \/ MainLoopSleep

\* The event loop runs the consumer task whenever it is ready, and every
\* _send_to_user ends.  No step of the main loop is assumed to happen: a
\* backoff sleep lasts from 30 s to more than four hours.
SpecBackoff ==
    /\ InitBackoff
    /\ [][NextBackoff]_vars
    /\ WF_vars(ProcessSondeData)
    /\ WF_vars(SendToUserDone)

----------------------------------------------------------------------------
\* The command surface: handle_command, called by get_telegram_updates for
\* every update with a message text, during the main loop's command poll

\* an authorization that lets every chat through
is_authorized_Everyone(chat_id, users) == TRUE

\* handle_command, "is_authorized = str(chat_id) == str(admin_chat_id) or
\* str(chat_id) in self.subscribed_users"
is_authorized(chat_id, users) ==
    \/ chat_id = admin_chat_id
    \/ \E i \in 1..Len(users) : users[i] = chat_id

\* handle_command's if / elif chain: what it awaits for the command
Dispatch(chat_id, command, users) ==
    IF command = "hello" THEN "none"
    ELSE IF command = "/start" THEN "cmd_start"
    ELSE IF command = "/stop" THEN "cmd_stop"
    ELSE IF ~is_authorized(chat_id, users) THEN "not_authorized"
    ELSE IF command = "/status" THEN "cmd_status"
    ELSE IF command = "/list" THEN "cmd_list"
    ELSE IF command = "/history" THEN "cmd_history"
    ELSE IF command = "/help" THEN "cmd_help"
    ELSE IF command = "/subscribers" /\ chat_id = admin_chat_id
         THEN "cmd_subscribers"
    ELSE "unknown_command"

\* cmd_start: the chat is added to the subscribers unless it is one
cmd_start(chat_id, users) ==
    IF \E i \in 1..Len(users) : users[i] = chat_id
    THEN users
    ELSE Append(users, chat_id)

\* cmd_stop: the chat is popped from the subscribers
cmd_stop(chat_id, users) ==
    SelectSeq(users, LAMBDA u : u # chat_id)

handle_command ==
    /\ main.pc = "poll"
    /\ main.command.update_id < MaxUpdates
    /\ \E chat_id \in Chats, command \in Commands :
          LET executed == Dispatch(chat_id, command, subscribed_users)
          IN  /\ main' = [main EXCEPT !.command =
                            [update_id |-> main.command.update_id + 1,
                             chat |-> chat_id,
                             command |-> command,
                             executed |-> executed]]
              /\ subscribed_users' =
                    IF executed = "cmd_start"
                    THEN cmd_start(chat_id, subscribed_users)
                    ELSE IF executed = "cmd_stop"
                    THEN cmd_stop(chat_id, subscribed_users)
                    ELSE subscribed_users
    /\ UNCHANGED << sondehub_stream, sondehub_connected,
                    sondehub_reconnect_attempts, sondes_dir_writable >>
    /\ UNCHANGED << now, detected_sonde, last_notification_time, sonde_queue,
                    delivered, pc, frame, last, notified_at, passed_filter >>

\* the main loop is in its command poll
InitCommands ==
    /\ now = 0
    /\ detected_sonde = EmptyDict
    /\ last_notification_time = EmptyDict
    /\ subscribed_users = Users
    /\ sonde_queue = << >>
    /\ delivered = 0
    /\ pc = "get"
    /\ frame = NoFrame
    /\ last = NoLast
    /\ notified_at = EmptyDict
    /\ passed_filter = {}
    /\ sondes_dir_writable = TRUE
    /\ sondehub_stream = 1
    /\ sondehub_connected = TRUE
    /\ sondehub_reconnect_attempts = 0
    /\ main = [pc |-> "poll", delay |-> 0, loaded |-> 0, gave_up |-> FALSE,
               command |-> NoCommand]

NextCommands == handle_command

SpecCommands == InitCommands /\ [][NextCommands]_vars

----------------------------------------------------------------------------
\* The descent classifier on its own: the consumer processes one report of an
\* entity that was detected one update interval ago, for a range of previous
\* and current altitudes and source timestamps.

PrevAltitudes == {900, 1000}
PrevSondeTimes == {0, 80}
CurAltitudes == {50, 900, 940, 950, 951, 1000}
CurSondeTimes == {0, 49, 50, 80, 120, 299, 300, 600, 601}
\* velocities for which the velocity signal does not fire (-10 is -1.0 m/s)
SlowVelocities == {0, -10}

InitDescent ==
    /\ now = 300
    /\ \E pa \in PrevAltitudes, pt \in PrevSondeTimes :
          detected_sonde =
            Put(EmptyDict, "A",
                NewTrackingState(Report("A", "edge", pa, 0, pt), FALSE, 0))
    /\ last_notification_time = Put(EmptyDict, "A", 0)
    /\ notified_at = Put(EmptyDict, "A", 0)
    /\ passed_filter = {"A"}
    /\ Running
    /\ subscribed_users = Users
    /\ \E alt \in CurAltitudes, t \in CurSondeTimes, v \in SlowVelocities :
          sonde_queue = << Message(Report("A", "edge", alt, v, t), MaxReports) >>
    /\ delivered = MaxReports
    /\ pc = "get"
    /\ frame = NoFrame
    /\ last = NoLast

NextDescent ==
    \/ ProcessSondeData
    \/ SendToUserDone

SpecDescent == InitDescent /\ [][NextDescent]_vars

----------------------------------------------------------------------------
\* The filter on its own: the consumer processes one report of entity A, at
\* either position and at altitudes on both sides of each altitude bound.  A
\* was first detected at 0 and B at 300; the clock reads 300 or 86700, where
\* A is older than 24 h and B is exactly 24 h old.

FilterAltitudes == {-1, 0, 50, 1000, 40000, 40001}
FilterClock == {300, 86700}

InitFilter ==
    /\ now \in FilterClock
    /\ detected_sonde =
          Put(Put(EmptyDict, "A",
                  NewTrackingState(Report("A", "edge", 1000, 0, 0), FALSE, 0)),
              "B", NewTrackingState(Report("B", "edge", 1000, 0, 0), FALSE, 300))
    /\ last_notification_time = Put(Put(EmptyDict, "A", 0), "B", 300)
    /\ notified_at = Put(Put(EmptyDict, "A", 0), "B", 300)
    /\ passed_filter = {"A", "B"}
    /\ Running
    /\ subscribed_users = Users
    /\ \E pos \in Positions, alt \in FilterAltitudes, v \in Velocities :
          sonde_queue = << Message(Report("A", pos, alt, v, 80), MaxReports) >>
    /\ delivered = MaxReports
    /\ pc = "get"
    /\ frame = NoFrame
    /\ last = NoLast

SpecFilter == InitFilter /\ [][NextDescent]_vars

----------------------------------------------------------------------------
\* Incomplete messages: the consumer processes one message of entity A in
\* which any set of the required keys is missing (none included).  Complete,
\* the message is a qualifying report below 100 m with a descent velocity.  A
\* was first detected at 0; the clock reads 300 or 86700, where a sweep would
\* remove A.

MissingKeys == SUBSET RequiredKeys

InitMalformed ==
    /\ now \in FilterClock
    /\ detected_sonde =
          Put(EmptyDict, "A",
              NewTrackingState(Report("A", "edge", 1000, 0, 0), FALSE, 0))
    /\ last_notification_time = Put(EmptyDict, "A", 0)
    /\ notified_at = Put(EmptyDict, "A", 0)
    /\ passed_filter = {"A"}
    /\ Running
    /\ subscribed_users = Users
    /\ \E missing \in MissingKeys, v \in Velocities :
          sonde_queue =
            << IncompleteMessage(Report("A", "edge", 50, v, 80), missing,
                                 MaxReports) >>
    /\ delivered = MaxReports
    /\ pc = "get"
    /\ frame = NoFrame
    /\ last = NoLast

SpecMalformed == InitMalformed /\ [][NextDescent]_vars

----------------------------------------------------------------------------
\* The filter on one message of the tracked entity A: on or beyond the
\* radius, at every altitude of FilterAltitudes or without the altitude key.

InitQualifying ==
    /\ now \in FilterClock
    /\ detected_sonde =
          Put(EmptyDict, "A",
              NewTrackingState(Report("A", "edge", 1000, 0, 0), FALSE, 0))
    /\ last_notification_time = Put(EmptyDict, "A", 0)
    /\ notified_at = Put(EmptyDict, "A", 0)
    /\ passed_filter = {"A"}
    /\ Running
    /\ subscribed_users = Users
    /\ \E pos \in Positions, alt \in FilterAltitudes, v \in Velocities,
          missing \in {{}, {"alt"}} :
          sonde_queue = << IncompleteMessage(Report("A", pos, alt, v, 80),
                                             missing, MaxReports) >>
    /\ delivered = MaxReports
    /\ pc = "get"
    /\ frame = NoFrame
    /\ last = NoLast

SpecQualifying == InitQualifying /\ [][NextDescent]_vars

----------------------------------------------------------------------------
\* Deliveries before and after run() has stored the event loop: on_message
\* is a bound method and can be called from construction on.  The consumer
\* task exists from run()'s first step on; before it the queue is empty.

InitEnqueue == InitConn

NextEnqueue ==
    \/ on_message
    \/ RunConnect
    \/ ProcessSondeData
    \/ SendToUserDone

SpecEnqueue == InitEnqueue /\ [][NextEnqueue]_vars

----------------------------------------------------------------------------
\* The history: the consumer processes two messages (any two reports, or a
\* report and a message without altitude), with the history directory
\* writable or not.  Entity A is untracked, or tracked and last notified at
\* 0; the clock reads 0 or 300, so that an Update is throttled or not.

InitHistory ==
    /\ now \in {0, 300}
    /\ \/ /\ detected_sonde =
                Put(EmptyDict, "A",
                    NewTrackingState(Report("A", "edge", 1000, 0, 0), FALSE, 0))
          /\ last_notification_time = Put(EmptyDict, "A", 0)
          /\ notified_at = Put(EmptyDict, "A", 0)
          /\ passed_filter = {"A"}
       \/ /\ detected_sonde = EmptyDict
          /\ last_notification_time = EmptyDict
          /\ notified_at = EmptyDict
          /\ passed_filter = {}
    /\ sondes_dir_writable \in BOOLEAN
    /\ sondehub_stream = 1
    /\ sondehub_connected = TRUE
    /\ sondehub_reconnect_attempts = 0
    /\ main = [pc |-> "check", delay |-> 0, loaded |-> 0, gave_up |-> FALSE,
            command |-> NoCommand]
    /\ subscribed_users = Users
    /\ \E first \in Reports :
          \E second \in { Message(r, MaxReports) : r \in Reports }
                       \cup { IncompleteMessage(Report("A", "edge", 50, -20, 80),
                                                {"alt"}, MaxReports) } :
             sonde_queue = << Message(first, MaxReports - 1), second >>
    /\ delivered = MaxReports
    /\ pc = "get"
    /\ frame = NoFrame
    /\ last = NoLast

SpecHistory == InitHistory /\ [][NextDescent]_vars

----------------------------------------------------------------------------
\* Steps of the consumer, as action formulas

\* the consumer takes the report at the head of the queue (only
\* ProcessSondeData shortens the queue)
TakesReport == pc = "get" /\ Len(sonde_queue') < Len(sonde_queue)

\* the consumer finishes the processing of a report: in the step that took
\* it, or when the broadcast ends
FinishesReport == pc' = "get" /\ (TakesReport \/ pc = "send")

\* cleanup_old_entries runs in this step: in the main loop, or at the end of
\* process_sonde_data
SweepRuns ==
    \/ MainLoopCleanup
    \/ FinishesReport /\ last'.swept

Tracked(s) == s \in DOMAIN detected_sonde

----------------------------------------------------------------------------
\* C1: a qualifying report of an entity that has no TrackingState is
\* classified as Initial and creates the TrackingState, whatever its altitude
\* and vertical velocity.
C1_FirstReportIsInitial ==
    [][ ( /\ TakesReport
          /\ Qualifying(Head(sonde_queue))
          /\ ~Tracked(Head(sonde_queue).serial) )
        => ( /\ last'.event_type = "initial"
             /\ Head(sonde_queue).serial \in DOMAIN detected_sonde'
             /\ detected_sonde'[Head(sonde_queue).serial].first_detected = now ) ]_vars

\* an Initial for a first report below 100 m with a descent velocity
C1_Witness ==
    /\ last.event_type = "initial"
    /\ ~last.was_tracked
    /\ last.sonde_data.alt < 100
    /\ last.sonde_data.vel_v < -10
    /\ Tracked(last.serial)

\* C2: for a tracked entity a qualifying report below 100 m is classified as
\* Landing, and the descending flag stored after processing is true.
C2_LandingStoresDescending ==
    ( /\ last.qualifying
      /\ last.was_tracked
      /\ last.sonde_data.alt < 100 )
    => ( /\ last.event_type = "landing"
         /\ (last.done /\ Tracked(last.serial))
               => detected_sonde[last.serial].is_descending )

\* C3: for a tracked entity a qualifying report at or above 100 m with a
\* vertical velocity below -1.0 m/s is an Update with descending = true, and
\* the rate signal is not evaluated for it.
C3_VelocitySignal ==
    ( /\ last.qualifying
      /\ last.was_tracked
      /\ last.sonde_data.alt >= 100
      /\ last.sonde_data.vel_v < -10 )
    => ( /\ last.event_type = "update"
         /\ last.is_descending
         /\ ~last.rate_evaluated )

\* an Update by the velocity signal although the altitude rose since the
\* previous report (the consumer is suspended in the broadcast, the
\* TrackingState still holds the previous altitude)
C3_Witness ==
    /\ pc = "send"
    /\ last.event_type = "update"
    /\ last.sonde_data.vel_v < -10
    /\ Tracked(last.serial)
    /\ detected_sonde[last.serial].last_altitude < last.sonde_data.alt

\* the rule of C4 on an altitude drop and a time difference
RateRule(altitude_diff, time_diff) ==
    /\ 0 < time_diff
    /\ time_diff < 300
    /\ altitude_diff >= 50
    /\ altitude_diff > time_diff

\* C4: when the velocity signal does not fire and the entity is tracked, the
\* descent verdict is (0 < time_diff < 300) and (altitude_diff >= 50) and
\* (altitude_diff / time_diff > 1.0), on the source timestamps and the stored
\* last altitude.
C4_RateVerdict ==
    [][ ( /\ TakesReport
          /\ Qualifying(Head(sonde_queue))
          /\ Tracked(Head(sonde_queue).serial)
          /\ Head(sonde_queue).vel_v >= -10 )
        => LET d == Head(sonde_queue)
               prev == detected_sonde[d.serial]
           IN  /\ last'.rate_evaluated
               /\ last'.verdict = RateRule(prev.last_altitude - d.alt,
                                           d.datetime - prev.last_sonde_time) ]_vars

\* 1000 m -> 900 m over 80 s is descending (the consumer is suspended in the
\* broadcast of the Update, the TrackingState still holds the previous report)
C4_Witness ==
    /\ pc = "send"
    /\ last.rate_evaluated
    /\ last.verdict
    /\ last.event_type = "update"
    /\ last.sonde_data.alt = 900
    /\ last.sonde_data.datetime = 80
    /\ Tracked(last.serial)
    /\ detected_sonde[last.serial].last_altitude = 1000
    /\ detected_sonde[last.serial].last_sonde_time = 0

UpdateInterval == UpdateIntervalMinutes * 60

\* C5: an Update notification is dispatched only if at least the update
\* interval has passed since the last notification of any kind dispatched for
\* the entity in its session.
C5_UpdateAfterInterval ==
    [][ ( /\ TakesReport
          /\ last'.event_type = "update"
          /\ last'.dispatched
          /\ Head(sonde_queue).serial \in DOMAIN notified_at )
        => now - notified_at[Head(sonde_queue).serial] >= UpdateInterval ]_vars

C7_DispatchIsRecorded ==
    ( /\ pc = "get"
      /\ last.done
      /\ last.dispatched
      /\ Tracked(last.serial) )
    => ( /\ last.serial \in DOMAIN last_notification_time
         /\ last_notification_time[last.serial] >= last.time )

C9_SweepByFirstDetected ==
    [][ SweepRuns
        => \A s \in DOMAIN detected_sonde :
             IF now - detected_sonde[s].first_detected > 86400
             THEN /\ s \notin DOMAIN detected_sonde'
                  /\ s \notin DOMAIN last_notification_time'
             ELSE s \in DOMAIN detected_sonde' ]_vars

\* the sweep at the end of a report evicted the entity whose TrackingState
\* that very report refreshed, and kept a younger entity
C9_Witness ==
    /\ last.done
    /\ last.swept
    /\ last.qualifying
    /\ last.was_tracked
    /\ ~Tracked(last.serial)
    /\ last.serial \notin DOMAIN last_notification_time
    /\ \E s \in DOMAIN detected_sonde :
         now - detected_sonde[s].first_detected = 86400

\* C10: when the consumer finishes a report (here: one whose processing
\* raised no error), whatever its classification, no TrackingState older than
\* 86400 s (by first_detected) is left in the store.
C10_SweepAfterEveryReport ==
    [][ (FinishesReport /\ ~last'.raised)
        => \A s \in DOMAIN detected_sonde' :
             now - detected_sonde'[s].first_detected <= 86400 ]_vars

\* C11: processing a report that fails the geofence or the altitude filter
\* emits no event, appends no history record and sends no notification; every
\* TrackingState and every last_notification_time entry is left as it was,
\* except that the entries of the entities first detected more than 86400 s
\* ago are removed.
C11_OutsideLeavesState ==
    [][ ( /\ TakesReport
          /\ ~( /\ is_within_radius(Head(sonde_queue).pos)
                /\ is_within_altitude(Head(sonde_queue).alt) ) )
        => ( /\ pc' = "get"
             /\ last'.done
             /\ last'.event_type = "none"
             /\ ~last'.saved
             /\ ~last'.dispatched
             /\ DOMAIN detected_sonde' \subseteq DOMAIN detected_sonde
             /\ DOMAIN last_notification_time' \subseteq DOMAIN last_notification_time
             /\ \A s \in DOMAIN detected_sonde :
                  IF now - detected_sonde[s].first_detected > 86400
                  THEN s \notin DOMAIN detected_sonde'
                  ELSE /\ s \in DOMAIN detected_sonde'
                       /\ detected_sonde'[s] = detected_sonde[s]
             /\ \A s \in DOMAIN last_notification_time :
                  IF s \in DOMAIN last_notification_time'
                  THEN last_notification_time'[s] = last_notification_time[s]
                  ELSE /\ s \in DOMAIN detected_sonde
                       /\ now - detected_sonde[s].first_detected > 86400 ) ]_vars

\* a report inside the geofence but above the altitude ceiling was processed:
\* the sweep removed A (older than 24 h) and left B (exactly 24 h) as it was
C11_Witness ==
    /\ last.done
    /\ last.sonde_data.pos = "edge"
    /\ last.sonde_data.alt > MaxAltitudeM
    /\ ~last.saved
    /\ ~Tracked("A")
    /\ "A" \notin DOMAIN last_notification_time
    /\ Tracked("B")
    /\ detected_sonde["B"].last_update_time = 300
    /\ last_notification_time["B"] = 300

\* C12: processing a qualifying report of a tracked entity at or above 100 m
\* for which the descent verdict is false emits no event: no history record,
\* no notification, last_notification_time as it was; the TrackingState's
\* last position, altitude, update time, source timestamp, descending flag and
\* vertical velocity are those of the report.
C12_NoneRefreshesSilently ==
    [][ ( /\ TakesReport
          /\ Qualifying(Head(sonde_queue))
          /\ Tracked(Head(sonde_queue).serial)
          /\ Head(sonde_queue).alt >= 100
          /\ ~last'.verdict )
        => LET d == Head(sonde_queue)
           IN  /\ pc' = "get"
               /\ last'.done
               /\ last'.event_type = "none"
               /\ ~last'.saved
               /\ ~last'.dispatched
               /\ last_notification_time' = last_notification_time
               /\ d.serial \in DOMAIN detected_sonde'
               /\ detected_sonde'[d.serial] =
                      [detected_sonde[d.serial] EXCEPT
                          !.last_position = d.pos,
                          !.last_altitude = d.alt,
                          !.last_update_time = now,
                          !.last_sonde_time = d.datetime,
                          !.is_descending = FALSE,
                          !.vertical_velocity = d.vel_v] ]_vars

\* a report of a tracked entity was processed as None one update interval
\* after the entity's last notification: the throttle would have let an event
\* through, the TrackingState holds the report and the throttle entry is old
C12_Witness ==
    /\ last.done
    /\ last.qualifying
    /\ last.was_tracked
    /\ last.event_type = "none"
    /\ last.time = 300
    /\ Tracked(last.serial)
    /\ detected_sonde[last.serial].last_update_time = 300
    /\ detected_sonde[last.serial].first_detected = 0
    /\ detected_sonde[last.serial].last_altitude = last.sonde_data.alt
    /\ ~detected_sonde[last.serial].is_descending
    /\ last.serial \in DOMAIN last_notification_time
    /\ last_notification_time[last.serial] = 0

\* C13: once the consumer has finished a qualifying report (of any event
\* type) and the entity is still tracked, the TrackingState's last position,
\* last altitude, last source timestamp, descending flag and vertical
\* velocity are those of that report, for every outcome of the deliveries.
C13_FieldsFollowReport ==
    ( /\ pc = "get"
      /\ last.done
      /\ last.qualifying
      /\ Tracked(last.serial) )
    => LET state == detected_sonde[last.serial]
           d == last.sonde_data
       IN  /\ state.last_position = d.pos
           /\ state.last_altitude = d.alt
           /\ state.last_sonde_time = d.datetime
           /\ state.is_descending = last.is_descending
           /\ state.vertical_velocity = d.vel_v

\* C14: a TrackingState is removed only in a step in which the sweep runs,
\* and an entity whose first_detected age is at most 86400 s keeps its
\* TrackingState in every step (reports outside the region and Landing events
\* included); a report of a tracked entity is never classified as Initial.
C14_RemovedOnlyBySweep ==
    [][ /\ \A s \in DOMAIN detected_sonde :
             /\ now - detected_sonde[s].first_detected <= 86400
                   => s \in DOMAIN detected_sonde'
             /\ s \notin DOMAIN detected_sonde' => SweepRuns
        /\ ( TakesReport /\ Tracked(Head(sonde_queue).serial) )
              => last'.event_type # "initial" ]_vars

\* an entity that landed is still tracked, exactly 24 h after its first
\* detection, after a report of it from outside the region was processed and
\* the sweep ran
C14_Witness ==
    /\ last.done
    /\ last.swept
    /\ last.serial = "A"
    /\ last.sonde_data.pos = "outside"
    /\ Tracked("A")
    /\ now - detected_sonde["A"].first_detected = 86400
    /\ detected_sonde["A"].last_altitude < 100
    /\ detected_sonde["A"].vertical_velocity = 0
    /\ detected_sonde["A"].is_descending

\* C15: a TrackingState is created once per session: an Initial event happens
\* only to an entity that is not tracked and for which no report has passed
\* the filter since its last eviction (so an eviction lies between any two
\* Initial events of an entity), it sets first_detected to the current time,
\* and no step changes first_detected of a TrackingState that stays.
C15_CreatedOncePerSession ==
    [][ /\ \A s \in (DOMAIN detected_sonde) \cap (DOMAIN detected_sonde') :
             detected_sonde'[s].first_detected = detected_sonde[s].first_detected
        /\ ( TakesReport /\ last'.event_type = "initial" )
              => ( /\ ~Tracked(Head(sonde_queue).serial)
                   /\ Head(sonde_queue).serial \notin passed_filter
                   /\ Head(sonde_queue).serial \in DOMAIN detected_sonde'
                   /\ detected_sonde'[Head(sonde_queue).serial].first_detected = now ) ]_vars

\* a second Initial of an entity: its first session was evicted by the sweep
\* (the throttle entry was written by a broadcast that ended after the
\* eviction), and the new TrackingState starts at the current time
C15_Witness ==
    /\ last.event_type = "initial"
    /\ last.had_entry
    /\ last.time = 86700
    /\ Tracked(last.serial)
    /\ detected_sonde[last.serial].first_detected = 86700

\* C16: in every reachable state the entities that have a TrackingState are
\* exactly those of which a report has passed the geofence and altitude
\* filter since their last eviction (or since start).
C16_TrackedIffObserved ==
    DOMAIN detected_sonde = passed_filter

\* B is tracked; A is not, although its last report passed the filter: the
\* sweep at the end of that report evicted it
C16_Witness ==
    /\ last.done
    /\ last.swept
    /\ last.serial = "A"
    /\ last.qualifying
    /\ last.was_tracked
    /\ ~Tracked("A")
    /\ "A" \notin passed_filter
    /\ Tracked("B")
    /\ "B" \in passed_filter

\* C17: detected_sonde and last_notification_time are changed by the
\* consumer only: while the consumer is suspended in a notification send, a
\* step that is not the consumer's leaves both dicts as they are.
C17_MapsOwnedByConsumer ==
    [][ ( /\ pc = "send"
          /\ pc' = "send"
          /\ frame' = frame )
        => ( /\ detected_sonde' = detected_sonde
             /\ last_notification_time' = last_notification_time ) ]_vars

\* C18: reports are processed one at a time in the order of their delivery:
\* a report leaves the queue only when the consumer is at the queue and the
\* processing of the report taken before it has finished, and it is the
\* report delivered right after that one.
C18_InDeliveryOrder ==
    [][ Len(sonde_queue') < Len(sonde_queue)
        => ( /\ pc = "get"
             /\ last.seq = 0 \/ last.done
             /\ Head(sonde_queue).seq = last.seq + 1
             /\ last'.seq = Head(sonde_queue).seq
             /\ sonde_queue' = Tail(sonde_queue) ) ]_vars

\* the consumer is suspended in the broadcast for the second report, which it
\* took after the first was finished, while the third waits in the queue
C18_Witness ==
    /\ pc = "send"
    /\ last.seq = 2
    /\ ~last.done
    /\ Len(sonde_queue) = 1
    /\ sonde_queue[1].seq = 3

\* C19: the hand-off queue has a capacity: while the consumer is suspended
\* in a notification send and the feed keeps delivering, the number of
\* waiting reports stays below the number at which the model stops the feed
\* (a capacity of the queue, not the cut-off of the model, ends its growth).
C19_QueueBounded ==
    pc = "send" => Len(sonde_queue) < MaxQueue

\* C20: no report makes the consumer loop stop: every report in the queue is
\* eventually taken and its processing finished (also when the processing of
\* a report before it raised an error), unless the consumer is cancelled.
C20_EveryReportProcessed ==
    \A n \in 1..MaxReports :
        (\E i \in 1..Len(sonde_queue) : sonde_queue[i].seq = n)
            ~> ( \/ pc = "cancelled"
                 \/ last.seq = n /\ last.done )

\* a report was dispatched and finished after the broadcast of an earlier
\* report had raised (a blocked subscriber was removed during that broadcast)
C20_Witness ==
    /\ pc = "get"
    /\ last.done
    /\ ~last.raised
    /\ last.dispatched
    /\ last.seq >= 2
    /\ Len(subscribed_users) < Len(Users)

\* C21: when a broadcast ends, a delivery has been attempted to every
\* subscriber that was in the set when the broadcast started: the delivery
\* that completes in the step is the one to the last of them (iter_used is
\* the size of the set at the start, iter_pos counts the deliveries of the
\* broadcast), whatever the outcomes of the deliveries were.
C21_EveryRecipientAttempted ==
    [][ ( pc = "send" /\ pc' = "get" )
        => frame.iter_pos = frame.iter_used ]_vars

\* C22: no report is lost in a shutdown: when the consumer has ended by
\* cancellation, the report it took last (if any) has been processed to its
\* end, or is back in the queue.
C22_NoReportLostInFlight ==
    pc = "cancelled"
    => ( \/ last.seq = 0
         \/ last.done
         \/ \E i \in 1..Len(sonde_queue) : sonde_queue[i].seq = last.seq )

\* C23: a message without a serial, or with latitude, longitude, altitude or
\* source timestamp missing, is dropped: detected_sonde and
\* last_notification_time are unchanged (no sweep either), no history record
\* is appended and no notification is sent.
C23_MalformedDropped ==
    [][ ( /\ TakesReport
          /\ Head(sonde_queue).missing # {} )
        => ( /\ detected_sonde' = detected_sonde
             /\ last_notification_time' = last_notification_time
             /\ pc' = "get"
             /\ last'.done
             /\ ~last'.saved
             /\ last'.appended = 0
             /\ ~last'.dispatched ) ]_vars

\* a message with only the altitude missing was dropped: A, first detected
\* more than 24 h ago, is still tracked and its throttle entry is still there
C23_Witness ==
    /\ last.done
    /\ last.sonde_data.missing = {"alt"}
    /\ ~last.dispatched
    /\ Tracked("A")
    /\ now - detected_sonde["A"].first_detected > 86400
    /\ "A" \in DOMAIN last_notification_time

\* C24: the reconnect attempt started with attempt counter k sleeps
\* 30 * 2^k seconds before it connects and leaves the counter at k + 1; an
\* attempt that fails does not change the counter again.
C24_BackoffDelay ==
    [][ /\ ( main.pc = "check" /\ main'.pc = "backoff" )
              => ( /\ main'.delay = 30 * (2 ^ sondehub_reconnect_attempts)
                   /\ sondehub_reconnect_attempts' = sondehub_reconnect_attempts + 1 )
        /\ ( main.pc = "backoff" /\ main'.pc # "backoff" /\ ~sondehub_connected' )
              => sondehub_reconnect_attempts' = sondehub_reconnect_attempts ]_vars

\* the third attempt in a row is asleep for 120 s
C24_Witness ==
    /\ main.pc = "backoff"
    /\ sondehub_reconnect_attempts = 3
    /\ main.delay = 120
    /\ ~sondehub_connected

\* C25: once reconnect_sondehub has given up (the attempt counter had reached
\* max_reconnect_attempts), no step resets the counter and no further
\* reconnect attempt is started.
C25_GiveUpIsPermanent ==
    [][ main.gave_up
        => ( /\ sondehub_reconnect_attempts' = sondehub_reconnect_attempts
             /\ main'.pc # "backoff" ) ]_vars

\* C26: when a reconnect attempt succeeds (connect_to_sondehub returns true
\* and the flag says Connected), the attempt counter is 0.
C26_SuccessResetsCounter ==
    [][ ( /\ main.pc = "backoff"
          /\ main'.pc # "backoff"
          /\ sondehub_connected' )
        => sondehub_reconnect_attempts' = 0 ]_vars

\* C27: when reconnect_sondehub has given up, the failure ends the main loop:
\* the loop is not at any of its steps with the give-up behind it.
C27_GiveUpIsFatal ==
    main.gave_up => main.pc \notin {"check", "backoff", "poll", "sleep"}

\* C28, as stated: whenever the main loop runs, the flag says Disconnected
\* and the attempt counter is below max_reconnect_attempts, a reconnect
\* attempt is eventually started.
C28_ReconnectAttempted ==
    ( /\ main.pc # "start"
      /\ ~sondehub_connected
      /\ sondehub_reconnect_attempts < 10 )
    ~> main.pc = "backoff"

\* C28, amended: whenever the main loop runs, the flag says Disconnected and
\* the attempt counter is below max_reconnect_attempts, eventually a
\* reconnect attempt is started or the on_connect callback has set the flag
\* to Connected.
C28_ReconnectAttemptedOrConnected ==
    ( /\ main.pc # "start"
      /\ ~sondehub_connected
      /\ sondehub_reconnect_attempts < 10 )
    ~> ( main.pc = "backoff" \/ sondehub_connected )

\* a second reconnect attempt in a row is asleep, after a disconnect of a
\* stream that had connected and a first attempt that failed
C28_Witness ==
    /\ main.pc = "backoff"
    /\ sondehub_stream >= 1
    /\ ~sondehub_connected
    /\ sondehub_reconnect_attempts = 2

\* C29: for each Initial, Update and Landing event exactly one history
\* append is made, also for an Update that the throttle suppresses, and it is
\* made before the notification is dispatched; it leaves one record (none if
\* the write fails).  No append is made for a None event, a malformed
\* message or a report outside the region.
C29_OneRecordPerEvent ==
    [][ TakesReport
        => LET event == last'.event_type \in {"initial", "update", "landing"}
           IN  /\ last'.saved = event
               /\ last'.appended = IF event /\ sondes_dir_writable THEN 1 ELSE 0
               /\ ( Malformed(Head(sonde_queue)) \/ ~Qualifying(Head(sonde_queue)) )
                     => ~event
               /\ pc' = "send" => last'.saved ]_vars

\* an Update was recorded in the history although the throttle suppressed
\* its notification
C29_Witness ==
    /\ last.done
    /\ last.event_type = "update"
    /\ ~last.dispatched
    /\ last.saved
    /\ last.appended = 1

\* C30: when the history append of an event failed, the notification is
\* dispatched as the throttle rule says, and once the consumer has finished
\* the report the TrackingState (if the entity is still tracked) holds the
\* report's values.
C30_AppendFailureIsIsolated ==
    [][ /\ ( TakesReport /\ last'.saved /\ last'.appended = 0 )
              => last'.dispatched
                 = should_send_notification(last_notification_time,
                                            Head(sonde_queue).serial,
                                            last'.event_type, now)
        /\ ( /\ FinishesReport
             /\ last'.saved
             /\ last'.appended = 0
             /\ last'.serial \in DOMAIN detected_sonde' )
           => LET state == detected_sonde'[last'.serial]
                  d == last'.sonde_data
              IN  /\ state.last_position = d.pos
                  /\ state.last_altitude = d.alt
                  /\ state.last_sonde_time = d.datetime
                  /\ state.is_descending = last'.is_descending
                  /\ state.vertical_velocity = d.vel_v ]_vars

\* C31: a delivery whose enqueue fails (the event loop is not stored yet)
\* drops the report: the queue, the consumer and the stores stay as they are
\* and the callback returns; a delivery made once the loop is stored is
\* enqueued at the tail, also after dropped ones, and the consumer takes it.
C31_EnqueueFailureDrops ==
    [][ /\ ( delivered' = delivered + 1 /\ loop = "unset" )
              => /\ sonde_queue' = sonde_queue
                 /\ pc' = pc
                 /\ detected_sonde' = detected_sonde
                 /\ last_notification_time' = last_notification_time
                 /\ main' = main
        /\ ( delivered' = delivered + 1 /\ loop = "running" )
              => /\ Len(sonde_queue') = Len(sonde_queue) + 1
                 /\ sonde_queue'[Len(sonde_queue')].seq = delivered'
        /\ ( TakesReport /\ last.seq = 0 )
              => Head(sonde_queue).seq = last'.seq ]_vars

\* the first delivery was dropped (the consumer has taken no report and the
\* report is not in the queue); the second, made after run() had stored the
\* loop, is in the queue
C31_Witness ==
    /\ delivered = 2
    /\ last.seq = 0
    /\ loop = "running"
    /\ Len(sonde_queue) = 1
    /\ sonde_queue[1].seq = 2

\* C32: the descent verdict and the event kind of a qualifying report of a
\* tracked entity are those computed from the report's own source fields and
\* the source timestamp and altitude of the qualifying report of the entity
\* processed just before it, whatever the receipt times of the two reports.
C32_VerdictFromSourceFields ==
    [][ ( /\ TakesReport
          /\ last.qualifying
          /\ last.serial = Head(sonde_queue).serial
          /\ Qualifying(Head(sonde_queue))
          /\ Tracked(Head(sonde_queue).serial) )
        => LET d == Head(sonde_queue)
               previous == Put(EmptyDict, d.serial,
                               NewTrackingState(last.sonde_data, FALSE, 0))
               verdict == DescentSignals(previous, d).verdict
           IN  /\ last'.verdict = verdict
               /\ last'.event_type = EventType(TRUE, d.alt, verdict) ]_vars

C34_HistoryHoldsSamples ==
    ( /\ pc = "get"
      /\ last.done
      /\ last.qualifying
      /\ Tracked(last.serial) )
    => LET history == detected_sonde[last.serial].altitude_history
       IN  /\ Len(history) >= 1
           /\ Len(history) <= 10
           /\ history[Len(history)]
                = [altitude |-> last.sonde_data.alt,
                   timestamp |-> last.sonde_data.datetime]

\* C35: every key of last_notification_time is a key of detected_sonde.
C35_ThrottleKeysAreTracked ==
    DOMAIN last_notification_time \subseteq DOMAIN detected_sonde

\* C36: while an entity stays tracked the last source timestamp of its
\* TrackingState never decreases, and a step that leaves the timestamp as it
\* was (the report was not newer) leaves the last altitude as it was.
C36_SourceTimeNeverDecreases ==
    [][ \A s \in DOMAIN detected_sonde \cap DOMAIN detected_sonde' :
          /\ detected_sonde'[s].last_sonde_time >= detected_sonde[s].last_sonde_time
          /\ detected_sonde'[s].last_sonde_time = detected_sonde[s].last_sonde_time
                => detected_sonde'[s].last_altitude = detected_sonde[s].last_altitude
      ]_vars

\* C37: at most one Stream can call on_message, on_connect and
\* on_disconnect: a connect leaves no earlier Stream open.
C37_OneSubscription ==
    Cardinality(open_streams) <= 1

\* C38: the attempt counter stays within 0..max_reconnect_attempts and the
\* backoff delay never exceeds reconnect_delay * 2^(max_reconnect_attempts - 1),
\* with on_connect and on_disconnect running between any two statements of
\* the reconnect.
C38_CounterInRange ==
    /\ 0 <= sondehub_reconnect_attempts
    /\ sondehub_reconnect_attempts <= max_reconnect_attempts
    /\ main.delay <= reconnect_delay * (2 ^ (max_reconnect_attempts - 1))

\* the last attempt's increment has overwritten the reset of an on_connect
\* that ran between its load and its store: the counter is at
\* max_reconnect_attempts with the flag set, in the longest backoff
C38_Witness ==
    /\ main.pc = "backoff"
    /\ sondehub_connected
    /\ sondehub_reconnect_attempts = max_reconnect_attempts
    /\ main.delay = reconnect_delay * (2 ^ (max_reconnect_attempts - 1))

\* C39: while the main loop is in a backoff sleep the consumer takes the next
\* queued report, however long the sleep lasts, and in every step that leaves
\* the main loop in the sleep the two stores change only by a step of the
\* consumer (no command poll, no timer sweep).
C39_ConsumerRunsDuringBackoff ==
    /\ \A n \in 1..MaxQueue :
          ( main.pc = "backoff" /\ Len(sonde_queue) = n )
             ~> ( Len(sonde_queue) < n )
    /\ [][ ( main.pc = "backoff" /\ main'.pc = "backoff" )
            => \/ TakesReport
               \/ pc = "send"
               \/ /\ detected_sonde' = detected_sonde
                  /\ last_notification_time' = last_notification_time ]_vars

\* both queued reports were processed while the main loop was in the sleep
\* of its first reconnect attempt
C39_Witness ==
    /\ main.pc = "backoff"
    /\ sondehub_reconnect_attempts = 1
    /\ ~sondehub_connected
    /\ last.done
    /\ last.seq = MaxReports
    /\ sonde_queue = << >>

\* C40: a command other than /start and /stop from a chat that is neither
\* the admin chat nor a subscriber when the command arrives gets the
\* not-authorized reply only and changes no subscription; /subscribers is
\* executed for the admin chat only.
C40_CommandsNeedAuthorization ==
    [][ main'.command.update_id # main.command.update_id
        => LET c == main'.command
               subscriber == \E i \in 1..Len(subscribed_users) :
                                subscribed_users[i] = c.chat
           IN  /\ ( /\ c.command \in Commands \ {"/start", "/stop", "hello"}
                    /\ c.chat # admin_chat_id
                    /\ ~subscriber )
                     => /\ c.executed = "not_authorized"
                        /\ subscribed_users' = subscribed_users
               /\ c.executed = "cmd_subscribers" => c.chat = admin_chat_id ]_vars

\* a chat that was a subscriber at the start has unsubscribed and gets the
\* not-authorized reply to /subscribers
C40_Witness ==
    /\ main.command.chat = "u1"
    /\ main.command.command = "/subscribers"
    /\ main.command.executed = "not_authorized"

====
